---- MODULE Spec2Model ----
(***************************************************************************)
(* viuer: the resize policy of src/lib.rs (resize) and the print entry     *)
(* point (print).  An image is modelled by its pixel dimensions, which is  *)
(* all that resize reads and all that its result is observed by.           *)
(***************************************************************************)
EXTENDS Integers, Sequences, FiniteSets, TLC

VARIABLES
    img,           \* the source image: [w, h] in pixels
    width,         \* config.width  / resize's `width`  : Option<u32>, in cells
    height,        \* config.height / resize's `height` : Option<u32>, in cells
    resize_on,     \* config.resize
    term,          \* what utils::terminal_size() returns: <<cols, rows>>
    pc,            \* "start" | "resized" | "resize_panicked" | "printed" | "print_panicked"
    print_width,   \* the width bound resize handed to the thumbnail call
    print_height,  \* the height bound resize handed to the thumbnail call
    out,           \* the image resize returned: [w, h]
    lines          \* number of output lines the printer emitted

vars == <<img, width, height, resize_on, term, pc, print_width, print_height, out, lines>>

----------------------------------------------------------------------------
\* Bounds of the model.
MaxDim == 6        \* small images are 1..MaxDim pixels on each axis
MaxCells == 4      \* requested cell widths / heights are 0..MaxCells
MaxCols == 4       \* terminal columns are 1..MaxCols
MaxRows == 4       \* terminal rows are 1..MaxRows

----------------------------------------------------------------------------
\* Option<u32>
None == << >>
Some(x) == << x >>
IsSome(o) == o # None
Unwrap(o) == o[1]

Max(a, b) == IF a >= b THEN a ELSE b
Min(a, b) == IF a <= b THEN a ELSE b

Image(w, h) == [w |-> w, h |-> h]
dimensions(i) == << i.w, i.h >>

\* tests::get_large_test_image, tests::get_small_test_image
get_large_test_image == Image(1000, 800)
get_small_test_image == Image(20, 10)

----------------------------------------------------------------------------
\* The image crate's thumbnail operations, as resize uses them.
\*
\* DynamicImage::thumbnail(nwidth, nheight) fits the image within the bounds,
\* preserving the aspect ratio: it computes the target with integer (u64)
\* arithmetic, truncating the derived axis and never letting it fall below 1,
\* and then resamples to exactly that target.  The truncation is what the
\* repository's own test pins: 1000x800 into 80x46 gives 57 (57.5 truncated).
\* The u32::MAX clipping of the derived axis is out of reach of the bounds.

\* Whether the aspect computation divides by zero (a panic in Rust).
ResizeDivByZero(w, h, nwidth, nheight) ==
    LET use_width == nwidth * h <= w * nheight
    IN  IF use_width THEN w = 0 ELSE h = 0

ResizeDimensions(w, h, nwidth, nheight) ==
    LET ratio == w * nheight
        nratio == nwidth * h
        use_width == nratio <= ratio
        intermediate == Max(1, IF use_width THEN (h * nwidth) \div w
                                            ELSE (w * nheight) \div h)
    IN  IF use_width THEN << nwidth, intermediate >>
                     ELSE << intermediate, nheight >>

\* A result of resize: an image, or a panic.
Ok(w, h) == [panicked |-> FALSE, w |-> w, h |-> h]
Panicked == [panicked |-> TRUE, w |-> 0, h |-> 0]

\* DynamicImage::thumbnail_exact: an image of exactly the requested size.
thumbnail_exact(i, nwidth, nheight) == Ok(nwidth, nheight)

\* DynamicImage::thumbnail
thumbnail(i, nwidth, nheight) ==
    IF ResizeDivByZero(i.w, i.h, nwidth, nheight)
    THEN Panicked
    ELSE LET d == ResizeDimensions(i.w, i.h, nwidth, nheight)
         IN  thumbnail_exact(i, d[1], d[2])

----------------------------------------------------------------------------
\* resize (src/lib.rs 113-148)

\* a slip: one pixel row per cell
CellsToPixels_Mutant(h) == h
\* "since 2 pixels are printed per terminal cell"
CellsToPixels(h) == 2 * h

\* a slip: the requested width ignored
PrintWidth_Mutant(i, w) == i.w
\* let (mut print_width, _) = img.dimensions(); if let Some(w) = width { print_width = w }
PrintWidth(i, w) == IF IsSome(w) THEN Unwrap(w) ELSE dimensions(i)[1]

\* let (_, mut print_height) = img.dimensions(); if let Some(h) = height { print_height = 2 * h }
PrintHeight(i, h) == IF IsSome(h) THEN CellsToPixels(Unwrap(h)) ELSE dimensions(i)[2]

\* utils::terminal_size(): the viewport read once per call
terminal_size == term
\* let w = u32::from(term_w)
TermW == terminal_size[1]
\* let h = u32::from(term_h - 1)
TermH == terminal_size[2] - 1

\* a slip: the width never clamped to the viewport
ClampWidth_Mutant(pw, w) == pw
\* if print_width > w { print_width = w }
ClampWidth(pw, w) == IF pw > w THEN w ELSE pw

\* a slip: the height clamped to the cell rows, not to twice that
ClampHeight_Mutant(ph, h) == IF ph > h THEN h ELSE ph
\* if print_height > h { print_height = 2 * h }
ClampHeight(ph, h) == IF ph > h THEN 2 * h ELSE ph

\* The bounds each match arm hands to its thumbnail call.
BoundW(i, w, h) ==
    IF w = None /\ h = None THEN ClampWidth(PrintWidth(i, w), TermW)
                            ELSE PrintWidth(i, w)
BoundH(i, w, h) ==
    IF w = None /\ h = None THEN ClampHeight(PrintHeight(i, h), TermH)
                            ELSE PrintHeight(i, h)

\* (None, None) => img.thumbnail(print_width, print_height)
ArmNoneNone(i, pw, ph) == thumbnail(i, pw, ph)

\* a slip: the exact resize used in the one-bound arm
ArmOne_Mutant(i, pw, ph) == thumbnail_exact(i, pw, ph)
\* (Some(_), None) | (None, Some(_)) => img.thumbnail(print_width, print_height)
ArmOne(i, pw, ph) == thumbnail(i, pw, ph)

\* (Some(_), Some(_)) => img.thumbnail_exact(print_width, print_height)
ArmBoth(i, pw, ph) == thumbnail_exact(i, pw, ph)

resize(i, w, h) ==
    LET pw == BoundW(i, w, h)
        ph == BoundH(i, w, h)
    IN  IF w = None /\ h = None THEN ArmNoneNone(i, pw, ph)
        ELSE IF IsSome(w) /\ IsSome(h) THEN ArmBoth(i, pw, ph)
        ELSE ArmOne(i, pw, ph)

\* printer::BlockPrinter::print: one output line per pair of pixel rows, an odd
\* trailing row being a line of its own.
BlockPrinterLines(i) == (i.h + 1) \div 2

----------------------------------------------------------------------------
\* Inputs.
SmallImages == { Image(w, h) : w \in 1..MaxDim, h \in 1..MaxDim }
CellOptions == { None } \cup { Some(c) : c \in 0..MaxCells }
Terminals == (1..MaxCols) \X (1..MaxRows)

\* The images and requests of the repository's tests and doc examples, under
\* the default 80x24 viewport and the 60x47 viewport of the design's scenario.
TestImages == { get_large_test_image, get_small_test_image }
TestWidths == { None, Some(100), Some(15), Some(30) }
TestHeights == { None, Some(90), Some(4), Some(9), Some(80) }
TestTerminals == { <<80, 24>>, <<60, 47>> }

Fresh ==
    /\ pc = "start"
    /\ print_width = 0
    /\ print_height = 0
    /\ out = Image(0, 0)
    /\ lines = 0
    /\ resize_on \in BOOLEAN

\* Non-empty images.
Init ==
    /\ Fresh
    /\ \/ /\ img \in SmallImages
          /\ width \in CellOptions
          /\ height \in CellOptions
          /\ term \in Terminals
       \/ /\ img \in TestImages
          /\ width \in TestWidths
          /\ height \in TestHeights
          /\ term \in TestTerminals

\* The zero-sized image.
InitZero ==
    /\ Fresh
    /\ img = Image(0, 0)
    /\ width \in CellOptions
    /\ height \in CellOptions
    /\ term \in Terminals

----------------------------------------------------------------------------
\* Operations.

\* A call of resize(&img, width, height).
Resize ==
    /\ pc = "start"
    /\ LET r == resize(img, width, height)
       IN  /\ print_width' = BoundW(img, width, height)
           /\ print_height' = BoundH(img, width, height)
           /\ pc' = IF r.panicked THEN "resize_panicked" ELSE "resized"
           /\ out' = Image(r.w, r.h)
    /\ UNCHANGED << img, width, height, resize_on, term, lines >>

\* print(&img, &config) with config.resize set: resize, then print the result.
PrintResized ==
    /\ pc = "start"
    /\ resize_on
    /\ LET r == resize(img, width, height)
       IN  /\ print_width' = BoundW(img, width, height)
           /\ print_height' = BoundH(img, width, height)
           /\ pc' = IF r.panicked THEN "print_panicked" ELSE "printed"
           /\ out' = Image(r.w, r.h)
           /\ lines' = IF r.panicked THEN 0 ELSE BlockPrinterLines(Image(r.w, r.h))
    /\ UNCHANGED << img, width, height, resize_on, term >>

\* print(&img, &config) with config.resize unset: print the image as it is.
PrintAsIs ==
    /\ pc = "start"
    /\ ~resize_on
    /\ pc' = "printed"
    /\ out' = img
    /\ lines' = BlockPrinterLines(img)
    /\ UNCHANGED << img, width, height, resize_on, term, print_width, print_height >>

Next == Resize \/ PrintResized \/ PrintAsIs

Spec == Init /\ [][Next]_vars
SpecZero == InitZero /\ [][Next]_vars

----------------------------------------------------------------------------
\* Shapes of a finished resize call.
Resized == pc = "resized"
BothAbsent == width = None /\ height = None
OnlyWidth == IsSome(width) /\ height = None
OnlyHeight == width = None /\ IsSome(height)
BothPresent == IsSome(width) /\ IsSome(height)
Cols == term[1]
Rows == term[2]
\* n / d rounded to the nearest integer (halves up), d > 0
RoundDiv(n, d) == (2 * n + d) \div (2 * d)
FloorMin1(n, d) == Max(1, n \div d)

\* The assertions of tests::test_resize_* and of resize's doc example hold of
\* the model (the tests run under the default 80x24 viewport).
TestsAgree ==
    Resized =>
      /\ (img = get_large_test_image /\ BothAbsent /\ term = <<80, 24>>) => out = Image(57, 46)
      /\ (img = get_small_test_image /\ BothAbsent /\ term = <<80, 24>>) => out = Image(20, 10)
      /\ (img = get_large_test_image /\ width = Some(100) /\ height = None) => out = Image(100, 80)
      /\ (img = get_small_test_image /\ width = Some(100) /\ height = None) => out = Image(20, 10)
      /\ (img = get_large_test_image /\ width = None /\ height = Some(90)) => out = Image(225, 180)
      /\ (img = get_small_test_image /\ width = None /\ height = Some(4)) => out = Image(16, 8)
      /\ (img = get_large_test_image /\ width = Some(15) /\ height = Some(9)) => out = Image(15, 18)
      /\ (img = get_small_test_image /\ width = Some(15) /\ height = Some(9)) => out = Image(15, 18)
      /\ (img = get_large_test_image /\ width = Some(30) /\ height = Some(80)) => out = Image(30, 160)

\* C1: with width = Some(w) and height = Some(h), resize returns an image of
\* exactly w x 2h pixels, whatever the source's size and aspect ratio, also when
\* the source is smaller than w x 2h.
C1_ExactSize ==
    (Resized /\ BothPresent) => out = Image(Unwrap(width), 2 * Unwrap(height))

\* C1 witness: an exact resize that upscaled on both axes and changed the aspect ratio.
C1_Witness ==
    /\ Resized /\ BothPresent
    /\ img.w < Unwrap(width) /\ img.h < 2 * Unwrap(height)
    /\ img.w * out.h # img.h * out.w
    /\ out = Image(Unwrap(width), 2 * Unwrap(height))

\* C2 as stated: with width = Some(w), height = None, a source wider than w comes
\* back w wide and round(H * w / W) high, and a source at most w wide comes back
\* with its own dimensions.
C2_Original ==
    (Resized /\ OnlyWidth) =>
        IF img.w > Unwrap(width)
        THEN out = Image(Unwrap(width), RoundDiv(img.h * Unwrap(width), img.w))
        ELSE out = img

\* C2 amended: with width = Some(w), height = None, a source wider than w comes
\* back w wide and max(1, floor(H * w / W)) high, and a source at most w wide
\* comes back with its own dimensions.
C2_WidthOnly ==
    (Resized /\ OnlyWidth) =>
        IF img.w > Unwrap(width)
        THEN out = Image(Unwrap(width), FloorMin1(img.h * Unwrap(width), img.w))
        ELSE out = img

\* C2 witness: a width-only shrink whose truncated height differs from the rounded one.
C2_Witness ==
    /\ Resized /\ OnlyWidth /\ img.w > Unwrap(width)
    /\ out.w = Unwrap(width)
    /\ out.h # RoundDiv(img.h * Unwrap(width), img.w)

\* C3 as stated: with width = None, height = Some(h), the pixel bound is 2h; a
\* source higher than 2h comes back 2h high and round(W * 2h / H) wide, and a
\* source at most 2h high comes back with its own dimensions.
C3_Original ==
    (Resized /\ OnlyHeight) =>
        IF img.h > 2 * Unwrap(height)
        THEN out = Image(RoundDiv(img.w * 2 * Unwrap(height), img.h), 2 * Unwrap(height))
        ELSE out = img

\* C3 amended: with width = None, height = Some(h), the pixel bound is 2h; a
\* source higher than 2h comes back 2h high and max(1, floor(W * 2h / H)) wide,
\* and a source at most 2h high comes back with its own dimensions.
C3_HeightOnly ==
    (Resized /\ OnlyHeight) =>
        /\ print_height = 2 * Unwrap(height)
        /\ IF img.h > 2 * Unwrap(height)
           THEN out = Image(FloorMin1(img.w * 2 * Unwrap(height), img.h), 2 * Unwrap(height))
           ELSE out = img

\* C3 witness: a height-only shrink whose truncated width differs from the rounded one.
C3_Witness ==
    /\ Resized /\ OnlyHeight /\ img.h > 2 * Unwrap(height)
    /\ out.h = 2 * Unwrap(height)
    /\ out.w # RoundDiv(img.w * 2 * Unwrap(height), img.h)

C5_Original ==
    (Resized /\ BothAbsent /\ img = get_large_test_image /\ term = <<60, 47>>)
        => out = Image(57, 46)

\* C5 amended: a 1000x800 image, width and height absent, comes back 57x46 in an
\* 80x24 viewport; in a 60x47 viewport it comes back 60x48.
C5_Scenario ==
    (Resized /\ BothAbsent /\ img = get_large_test_image) =>
        /\ term = <<80, 24>> => out = Image(57, 46)
        /\ term = <<60, 47>> => out = Image(60, 48)

\* C5 witness: the 1000x800 image was resized for the 80x24 viewport.
C5_Witness ==
    /\ Resized /\ BothAbsent /\ img = get_large_test_image
    /\ term = <<80, 24>> /\ out = Image(57, 46)

\* The source fits the pixel bounds of the fit-within branch taken.
FitsBounds ==
    \/ BothAbsent /\ img.w <= Cols /\ img.h <= 2 * (Rows - 1)
    \/ OnlyWidth /\ img.w <= Unwrap(width)
    \/ OnlyHeight /\ img.h <= 2 * Unwrap(height)

\* C6: in the fit-within branches (both absent, or exactly one present) the
\* result is never wider or higher than the source, and a source that already
\* fits the pixel bounds comes back with exactly its own dimensions.
C6_ShrinkOnly ==
    (Resized /\ ~BothPresent) =>
        /\ out.w <= img.w /\ out.h <= img.h
        /\ FitsBounds => out = img

\* C6 witness: a width-only request wider than the source left it unchanged.
C6_Witness ==
    /\ Resized /\ OnlyWidth
    /\ img.w < Unwrap(width)
    /\ out = img

\* C7 as stated: print of a 0x0 image completes without error or panic and
\* emits zero output lines, whatever the configuration.
C7_ZeroImage ==
    (img = Image(0, 0) /\ pc \in {"printed", "print_panicked"})
        => (pc = "printed" /\ lines = 0)

\* The image already has exactly the requested target size.
MatchesTarget ==
    \/ BothAbsent /\ img.w = Cols /\ img.h = 2 * (Rows - 1)
    \/ OnlyWidth /\ img.w = Unwrap(width)
    \/ OnlyHeight /\ img.h = 2 * Unwrap(height)
    \/ BothPresent /\ img.w = Unwrap(width) /\ img.h = 2 * Unwrap(height)

\* C8: resizing an image whose dimensions already equal the requested target
\* bounds (for each of the three option shapes) returns the same dimensions.
C8_Idempotent ==
    (Resized /\ MatchesTarget) => out = img

\* C8 witness: an image of exactly cols x 2 * (rows - 1) pixels was resized with
\* both options absent.
C8_Witness ==
    /\ Resized /\ BothAbsent
    /\ img.w = Cols /\ img.h = 2 * (Rows - 1)
    /\ out = img

\* The reference: a shrink-only, aspect-preserving fit into cols x 2 * (rows - 1).
ReferenceFit == thumbnail(img, Min(img.w, Cols), Min(img.h, 2 * (Rows - 1)))

\* C9: with both options absent, the result equals that of the reference fit
\* thumbnail(min(W, cols), min(H, 2 * (rows - 1))), although the code compares
\* the image height with rows - 1.
C9_EqualsReference ==
    (Resized /\ BothAbsent) =>
        (~ReferenceFit.panicked /\ out = Image(ReferenceFit.w, ReferenceFit.h))

\* C9 witness: a source higher than rows - 1 but not higher than 2 * (rows - 1),
\* and wider than the viewport, was resized.
C9_Witness ==
    /\ Resized /\ BothAbsent
    /\ img.h > Rows - 1 /\ img.h <= 2 * (Rows - 1)
    /\ img.w > Cols
    /\ out.h < img.h

\* C10 as stated: with both options absent, the width bound handed to thumbnail
\* is cols only when the source is wider than cols, the height bound is
\* 2 * (rows - 1) only when the source is higher than 2 * (rows - 1), and a
\* dimension within its bound is handed over as the source's own size.
C10_Original ==
    (Resized /\ BothAbsent) =>
        /\ print_width = (IF img.w > Cols THEN Cols ELSE img.w)
        /\ print_height = (IF img.h > 2 * (Rows - 1) THEN 2 * (Rows - 1) ELSE img.h)

\* C10 amended: with both options absent, the width bound handed to thumbnail is
\* cols only when the source is wider than cols, the height bound is
\* 2 * (rows - 1) whenever the source is higher than rows - 1, and otherwise the
\* source's own size is handed over.
C10_ClampedBounds ==
    (Resized /\ BothAbsent) =>
        /\ print_width = (IF img.w > Cols THEN Cols ELSE img.w)
        /\ print_height = (IF img.h > Rows - 1 THEN 2 * (Rows - 1) ELSE img.h)

\* C10 witness: a source higher than rows - 1 but lower than 2 * (rows - 1) was
\* handed the height bound 2 * (rows - 1).
C10_Witness ==
    /\ Resized /\ BothAbsent
    /\ img.h > Rows - 1 /\ img.h < 2 * (Rows - 1)
    /\ print_height = 2 * (Rows - 1)

====
